---- MODULE Spec2Model ----
(***************************************************************************)
(* MorphoSpendingGate: the policy gate that registers spending policies,   *)
(* authorizes and revokes agents, validates and consumes spending proofs,  *)
(* tracks the rolling daily spend and forwards the operation to Morpho     *)
(* Blue.  One transaction is one atomic step; a revert restores the state  *)
(* the transaction started from.                                           *)
(***************************************************************************)
EXTENDS Integers, Sequences, FiniteSets, TLC

\* ------------------------------------------------------------------------
\* Program constants
\* ------------------------------------------------------------------------
DAY_IN_SECONDS == 86400
PROOF_VALIDITY_PERIOD == 300

OPERATION_SUPPLY == 0
OPERATION_BORROW == 1
OPERATION_WITHDRAW == 2
OPERATION_REPAY == 3

\* ------------------------------------------------------------------------
\* Bounds of the exploration
\* ------------------------------------------------------------------------
NProofs == 2
NLimitProofs == 3

\* the manager's clock starts two minutes before midnight
StartClock == 172680000

\* the manager is followed for this many history entries
MaxHistory == 2

\* the manager's daily budget of operations
MaxOperationsPerDay == 1

\* the manager is followed for this long, in ms
MaxRun == 420000

StartTime == 1000
MaxElapsed == 172800

\* ------------------------------------------------------------------------
\* Value domains
\* ------------------------------------------------------------------------
ZeroAddr == "0x0"
Owners == {"o1", "o2"}
Agents == {"a1", "a2"}
Markets == {"m1", "m2"}
Amounts == {2500, 5000}
LimitAmounts == {2000, 3000, 5000}
Ops == {OPERATION_SUPPLY, OPERATION_BORROW, OPERATION_WITHDRAW, OPERATION_REPAY}
ProofBytes == 1..NProofs
LimitProofBytes == 1..NLimitProofs
Nonce == "nonce-1"
TickDeltas == {43200, 86399}
ProofAges == {299, 300, 301, -1}
GatedFns == {"supplyWithProof", "borrowWithProof", "withdrawWithProof", "repayWithProof"}

\* keccak256 of a byte string: collision free, not the identity
keccak256(b) == <<"keccak256", b>>

ProofHashes == {keccak256(b) : b \in ProofBytes \cup LimitProofBytes}
ZeroProofHash == <<"bytes32", 0>>

\* ------------------------------------------------------------------------
\* SpendingPolicy
\* ------------------------------------------------------------------------
ZeroPolicy ==
  [dailyLimit |-> 0, maxSingleTx |-> 0, maxLTV |-> 0, minHealthFactor |-> 0,
   allowedMarkets |-> <<>>, requireProofForSupply |-> FALSE,
   requireProofForBorrow |-> FALSE, requireProofForWithdraw |-> FALSE]

DEFAULT_POLICY ==
  [dailyLimit |-> 10000, maxSingleTx |-> 5000, maxLTV |-> 70, minHealthFactor |-> 12,
   allowedMarkets |-> <<"m1">>, requireProofForSupply |-> TRUE,
   requireProofForBorrow |-> TRUE, requireProofForWithdraw |-> TRUE]

ConservativePolicy ==
  [dailyLimit |-> 5000, maxSingleTx |-> 2500, maxLTV |-> 50, minHealthFactor |-> 15,
   allowedMarkets |-> <<"m2", "m1">>, requireProofForSupply |-> FALSE,
   requireProofForBorrow |-> TRUE, requireProofForWithdraw |-> FALSE]

PolicyCatalogue == {DEFAULT_POLICY, ConservativePolicy}

\* a policy registered on purpose with no spending allowance: dailyLimit and
\* maxLTV are both zero
ZeroLimitPolicy ==
  [dailyLimit |-> 0, maxSingleTx |-> 0, maxLTV |-> 0, minHealthFactor |-> 15,
   allowedMarkets |-> <<"m1">>, requireProofForSupply |-> TRUE,
   requireProofForBorrow |-> TRUE, requireProofForWithdraw |-> TRUE]

\* the conservative preset with its markets submitted in the other order
ConservativeReordered == [ConservativePolicy EXCEPT !.allowedMarkets = <<"m1", "m2">>]

\* the markets of a list in ascending order of address, each once
MarketsAscending == <<"m1", "m2">>
Normalised(allowedMarkets) ==
  SelectSeq(MarketsAscending,
            LAMBDA m : \E i \in 1..Len(allowedMarkets) : allowedMarkets[i] = m)

\* PolicyVerifier.computePolicyHash: keccak256 of the encoded fields, in
\* declaration order, with allowedMarkets normalised first: the order in which
\* the markets were submitted does not count
computePolicyHash(policy) ==
  <<"keccak256", policy.dailyLimit, policy.maxSingleTx, policy.maxLTV,
    policy.minHealthFactor, Normalised(policy.allowedMarkets),
    policy.requireProofForSupply, policy.requireProofForBorrow,
    policy.requireProofForWithdraw>>

ZeroHash == <<"bytes32", 0>>
PolicyHashes == {ZeroHash} \cup {computePolicyHash(p) : p \in PolicyCatalogue}

\* the keys of the policies mapping the exploration reads or writes
StoredHashes == PolicyHashes \cup {computePolicyHash(ZeroLimitPolicy)}

\* ------------------------------------------------------------------------
\* AgentConfig
\* ------------------------------------------------------------------------
ZeroAgentConfig ==
  [agent |-> ZeroAddr, owner |-> ZeroAddr, policyHash |-> ZeroHash,
   dailySpent |-> 0, lastResetTimestamp |-> 0, isActive |-> FALSE]

\* ------------------------------------------------------------------------
\* State
\* ------------------------------------------------------------------------
\* policies, agents, ownerAgents, usedProofs: the contract's storage;
\* executed: how often Morpho was called under each proof hash;
\* now: block.timestamp; lastCall: the transaction just executed;
\* borrowed: history of the borrows executed since the agent's authorization,
\* kept where the spend over time is examined;
\* events: the log of the events emitted by the gated operations, kept where
\* the audit trail is examined
\* state, isRunning: the fields of the AgentVaultManager; cycle: where its
\* loop stands and the decision it took last; clock: Date.now() in ms
VARIABLES policies, agents, ownerAgents, usedProofs, executed, now, lastCall, borrowed, events, state, isRunning, cycle, clock

vars ==
  <<policies, agents, ownerAgents, usedProofs, executed, now, lastCall, borrowed,
    events, state, isRunning, cycle, clock>>

manager == <<state, isRunning, cycle, clock>>

storage == <<policies, agents, ownerAgents, usedProofs, executed>>

\* the transaction just executed: the call, the error it reverted with
\* ("ok" when it did not) and the check that reverted
NoCall ==
  [fn |-> "none", sender |-> ZeroAddr, agent |-> ZeroAddr, policyHash |-> ZeroHash,
   market |-> ZeroAddr, amount |-> 0, proofHash |-> ZeroProofHash,
   err |-> "none", at |-> "none"]

Init ==
  /\ policies = [h \in StoredHashes |-> ZeroPolicy]
  /\ agents = [a \in Agents |-> ZeroAgentConfig]
  /\ ownerAgents = [o \in Owners |-> [a \in Agents |-> FALSE]]
  /\ usedProofs = {}
  /\ executed = [h \in ProofHashes |-> 0]
  /\ now = StartTime
  /\ lastCall = NoCall
  /\ borrowed = <<>>
  /\ events = <<>>
  /\ state = [history |-> <<>>, dailyOperationCount |-> 0,
              lastOperationTimestamp |-> 0, isActive |-> FALSE]
  /\ isRunning = FALSE
  /\ cycle = [pc |-> "stopped", i |-> 0, decision |-> [shouldExecute |-> FALSE],
              generated |-> FALSE]
  /\ clock = StartClock

\* ------------------------------------------------------------------------
\* libraries/PolicyVerifier and libraries/ProofDecoder
\* ------------------------------------------------------------------------
\* a proof is fresh for PROOF_VALIDITY_PERIOD seconds and never comes from
\* the future
verifyProofTimestamp(proofTimestamp, blockTimestamp) ==
  /\ proofTimestamp <= blockTimestamp
  /\ blockTimestamp - proofTimestamp <= PROOF_VALIDITY_PERIOD

\* the rolling window is measured from the last reset
shouldResetDailyLimit(lastResetTimestamp, blockTimestamp) ==
  blockTimestamp >= lastResetTimestamp + DAY_IN_SECONDS

verifyMarketAllowed(market, allowedMarkets) ==
  \E i \in 1..Len(allowedMarkets) : allowedMarkets[i] = market

verifySingleTxLimit(amount, maxSingleTx) == amount <= maxSingleTx

verifyDailyLimit(amount, currentSpent, dailyLimit) ==
  currentSpent + amount <= dailyLimit

\* an ideal signature names its signer and the message it covers
Sign(signer, commitment) == [signer |-> signer, commitment |-> commitment]

verifyAgentSignature(agent, commitment, signature) ==
  /\ signature.signer = agent
  /\ signature.commitment = commitment

extractMetadata(publicInputs) ==
  [operationType |-> publicInputs[1], amount |-> publicInputs[2],
   market |-> publicInputs[3], agent |-> publicInputs[4],
   nonce |-> publicInputs[5]]

\* ------------------------------------------------------------------------
\* Internal functions of MorphoSpendingGate
\* ------------------------------------------------------------------------
\* the metadata field on which "Extract and validate metadata" reverts, or "ok"
metadataCheck_IgnoresAmount(metadata, operationType, amount, market, sender) ==
  IF metadata.operationType # operationType THEN "operationType"
  ELSE IF metadata.market # market THEN "market"
  ELSE IF metadata.agent # sender THEN "agent"
  ELSE "ok"

metadataCheck(metadata, operationType, amount, market, sender) ==
  IF metadata.operationType # operationType THEN "operationType"
  ELSE IF metadata.amount # amount THEN "amount"
  ELSE IF metadata.market # market THEN "market"
  ELSE IF metadata.agent # sender THEN "agent"
  ELSE "ok"

\* the signature covers keccak256(proofHash, nonce)
signatureCheck(proof, sender) ==
  LET metadata == extractMetadata(proof.publicInputs)
      proofCommitment == <<keccak256(proof.proof), metadata.nonce>>
  IN  IF ~verifyAgentSignature(sender, proofCommitment, proof.signature)
      THEN "signature" ELSE "ok"

validateAgentAndProof_VerifierFirst(config, used, proof, verdict, amount, market, operationType, sender) ==
  LET metadata == extractMetadata(proof.publicInputs)
      meta == metadataCheck(metadata, operationType, amount, market, sender)
  IN  IF ~config.isActive THEN "isActive"
      ELSE IF keccak256(proof.proof) \in used THEN "usedProofs"
      ELSE IF ~verdict THEN "verifier"
      ELSE IF ~verifyProofTimestamp(proof.timestamp, now) THEN "timestamp"
      ELSE IF proof.policyHash # config.policyHash THEN "policyHash"
      ELSE IF meta # "ok" THEN meta
      ELSE signatureCheck(proof, sender)

validateAgentAndProof_AllowsReplay(config, used, proof, verdict, amount, market, operationType, sender) ==
  LET metadata == extractMetadata(proof.publicInputs)
      meta == metadataCheck(metadata, operationType, amount, market, sender)
  IN  IF ~config.isActive THEN "isActive"
      ELSE IF ~verifyProofTimestamp(proof.timestamp, now) THEN "timestamp"
      ELSE IF ~verdict THEN "verifier"
      ELSE IF proof.policyHash # config.policyHash THEN "policyHash"
      ELSE IF meta # "ok" THEN meta
      ELSE signatureCheck(proof, sender)

validateAgentAndProof_IgnoresVerifier(config, used, proof, verdict, amount, market, operationType, sender) ==
  LET metadata == extractMetadata(proof.publicInputs)
      meta == metadataCheck(metadata, operationType, amount, market, sender)
  IN  IF ~config.isActive THEN "isActive"
      ELSE IF keccak256(proof.proof) \in used THEN "usedProofs"
      ELSE IF ~verifyProofTimestamp(proof.timestamp, now) THEN "timestamp"
      ELSE IF proof.policyHash # config.policyHash THEN "policyHash"
      ELSE IF meta # "ok" THEN meta
      ELSE signatureCheck(proof, sender)

validateAgentAndProof_AnyPolicy(config, used, proof, verdict, amount, market, operationType, sender) ==
  LET metadata == extractMetadata(proof.publicInputs)
      meta == metadataCheck(metadata, operationType, amount, market, sender)
  IN  IF ~config.isActive THEN "isActive"
      ELSE IF keccak256(proof.proof) \in used THEN "usedProofs"
      ELSE IF ~verifyProofTimestamp(proof.timestamp, now) THEN "timestamp"
      ELSE IF ~verdict THEN "verifier"
      ELSE IF meta # "ok" THEN meta
      ELSE signatureCheck(proof, sender)

validateAgentAndProof_AnyAge(config, used, proof, verdict, amount, market, operationType, sender) ==
  LET metadata == extractMetadata(proof.publicInputs)
      meta == metadataCheck(metadata, operationType, amount, market, sender)
  IN  IF ~config.isActive THEN "isActive"
      ELSE IF keccak256(proof.proof) \in used THEN "usedProofs"
      ELSE IF ~verdict THEN "verifier"
      ELSE IF proof.policyHash # config.policyHash THEN "policyHash"
      ELSE IF meta # "ok" THEN meta
      ELSE signatureCheck(proof, sender)

\* the check at which _validateAgentAndProof reverts, or "ok"; used is the
\* usedProofs mapping and verdict is what the verifier oracle returns for
\* (proof, publicInputs, policyHash)
validateAgentAndProof(config, used, proof, verdict, amount, market, operationType, sender) ==
  LET metadata == extractMetadata(proof.publicInputs)
      meta == metadataCheck(metadata, operationType, amount, market, sender)
  IN  IF ~config.isActive THEN "isActive"
      ELSE IF keccak256(proof.proof) \in used THEN "usedProofs"
      ELSE IF ~verifyProofTimestamp(proof.timestamp, now) THEN "timestamp"
      ELSE IF ~verdict THEN "verifier"
      ELSE IF proof.policyHash # config.policyHash THEN "policyHash"
      ELSE IF meta # "ok" THEN meta
      ELSE signatureCheck(proof, sender)

validateLimits_IgnoresSpent(config, policy, amount, market) ==
  IF ~verifyMarketAllowed(market, policy.allowedMarkets) THEN "allowedMarkets"
  ELSE IF ~verifySingleTxLimit(amount, policy.maxSingleTx) THEN "maxSingleTx"
  ELSE IF ~verifyDailyLimit(amount, 0, policy.dailyLimit) THEN "dailyLimit"
  ELSE "ok"

\* the check at which _validateLimits reverts, or "ok"
validateLimits(config, policy, amount, market) ==
  LET currentSpent == IF shouldResetDailyLimit(config.lastResetTimestamp, now)
                      THEN 0 ELSE config.dailySpent
  IN  IF ~verifyMarketAllowed(market, policy.allowedMarkets) THEN "allowedMarkets"
      ELSE IF ~verifySingleTxLimit(amount, policy.maxSingleTx) THEN "maxSingleTx"
      ELSE IF ~verifyDailyLimit(amount, currentSpent, policy.dailyLimit)
           THEN "dailyLimit"
      ELSE "ok"

\* the custom error each check reverts with; a revert of the verifier or of
\* Morpho bubbles up through the gate
ErrorOf(check) ==
  CASE check = "ok" -> "ok"
    [] check = "isActive" -> "AgentNotAuthorized"
    [] check = "timestamp" -> "ProofExpired"
    [] check = "signature" -> "InvalidSignature"
    [] check = "allowedMarkets" -> "MarketNotAllowed"
    [] check = "maxSingleTx" -> "ExceedsSingleTxLimit"
    [] check = "dailyLimit" -> "ExceedsDailyLimit"
    [] check = "verifierCall" -> "VerifierReverted"
    [] check = "morphoCall" -> "MorphoReverted"
    [] OTHER -> "InvalidProof"

updateDailySpent_LosesUpdate(config, amount) ==
  IF shouldResetDailyLimit(config.lastResetTimestamp, now)
  THEN [config EXCEPT !.dailySpent = amount, !.lastResetTimestamp = now]
  ELSE [config EXCEPT !.dailySpent = amount]

updateDailySpent_AddsAfterReset(config, amount) ==
  IF shouldResetDailyLimit(config.lastResetTimestamp, now)
  THEN [config EXCEPT !.dailySpent = @ + amount, !.lastResetTimestamp = now]
  ELSE [config EXCEPT !.dailySpent = @ + amount]

\* the AgentConfig _updateDailySpent leaves behind
updateDailySpent(config, amount) ==
  IF shouldResetDailyLimit(config.lastResetTimestamp, now)
  THEN [config EXCEPT !.dailySpent = amount, !.lastResetTimestamp = now]
  ELSE [config EXCEPT !.dailySpent = @ + amount]

Revert_KeepsWrites(err, before, reached) == reached

\* a revert undoes every write of the transaction
Revert(err, before, reached) == IF err = "ok" THEN reached ELSE before

\* ------------------------------------------------------------------------
\* Policy and agent management
\* ------------------------------------------------------------------------
registerPolicy_ClearsOthers(sender, policy) ==
  LET policyHash == computePolicyHash(policy)
  IN  /\ lastCall = NoCall
      /\ policies' = [h \in DOMAIN policies |->
                        IF h = policyHash THEN policy ELSE ZeroPolicy]
      /\ lastCall' = [NoCall EXCEPT !.fn = "registerPolicy", !.sender = sender,
                                    !.policyHash = policyHash, !.err = "ok",
                                    !.at = "ok"]
      /\ UNCHANGED <<agents, ownerAgents, usedProofs, executed, now>>

registerPolicy(sender, policy) ==
  LET policyHash == computePolicyHash(policy)
  IN  /\ lastCall = NoCall
      /\ policies' = [policies EXCEPT ![policyHash] = policy]
      /\ lastCall' = [NoCall EXCEPT !.fn = "registerPolicy", !.sender = sender,
                                    !.policyHash = policyHash, !.err = "ok",
                                    !.at = "ok"]
      /\ UNCHANGED <<agents, ownerAgents, usedProofs, executed, now>>

authorizeAgent_KeepsCounters(sender, agent, policyHash) ==
  LET err == IF policies[policyHash].dailyLimit = 0 /\ policies[policyHash].maxLTV = 0
             THEN "PolicyNotFound" ELSE "ok"
      config == [agent |-> agent, owner |-> sender, policyHash |-> policyHash,
                 dailySpent |-> agents[agent].dailySpent,
                 lastResetTimestamp |-> now, isActive |-> TRUE]
  IN  /\ lastCall = NoCall
      /\ agents' = Revert(err, agents, [agents EXCEPT ![agent] = config])
      /\ ownerAgents' = Revert(err, ownerAgents,
                               [ownerAgents EXCEPT ![sender][agent] = TRUE])
      /\ lastCall' = [NoCall EXCEPT !.fn = "authorizeAgent", !.sender = sender,
                                    !.agent = agent, !.policyHash = policyHash,
                                    !.err = err,
                                    !.at = IF err = "ok" THEN "ok" ELSE "policies"]
      /\ UNCHANGED <<policies, usedProofs, executed, now>>

authorizeAgent(sender, agent, policyHash) ==
  LET err == IF policies[policyHash].dailyLimit = 0 /\ policies[policyHash].maxLTV = 0
             THEN "PolicyNotFound" ELSE "ok"
      config == [agent |-> agent, owner |-> sender, policyHash |-> policyHash,
                 dailySpent |-> 0, lastResetTimestamp |-> now, isActive |-> TRUE]
  IN  /\ lastCall = NoCall
      /\ agents' = Revert(err, agents, [agents EXCEPT ![agent] = config])
      /\ ownerAgents' = Revert(err, ownerAgents,
                               [ownerAgents EXCEPT ![sender][agent] = TRUE])
      /\ lastCall' = [NoCall EXCEPT !.fn = "authorizeAgent", !.sender = sender,
                                    !.agent = agent, !.policyHash = policyHash,
                                    !.err = err,
                                    !.at = IF err = "ok" THEN "ok" ELSE "policies"]
      /\ UNCHANGED <<policies, usedProofs, executed, now>>

revokeAgent_ClearsCounters(sender, agent) ==
  LET config == agents[agent]
      err == IF config.owner # sender THEN "AgentNotAuthorized" ELSE "ok"
  IN  /\ lastCall = NoCall
      /\ agents' = Revert(err, agents,
                          [agents EXCEPT ![agent].isActive = FALSE,
                                         ![agent].dailySpent = 0])
      /\ ownerAgents' = Revert(err, ownerAgents,
                               [ownerAgents EXCEPT ![sender][agent] = FALSE])
      /\ lastCall' = [NoCall EXCEPT !.fn = "revokeAgent", !.sender = sender,
                                    !.agent = agent, !.err = err,
                                    !.at = IF err = "ok" THEN "ok" ELSE "owner"]
      /\ UNCHANGED <<policies, usedProofs, executed, now>>

revokeAgent_AnyCaller(sender, agent) ==
  LET config == agents[agent]
      err == "ok"
  IN  /\ lastCall = NoCall
      /\ agents' = Revert(err, agents, [agents EXCEPT ![agent].isActive = FALSE])
      /\ ownerAgents' = Revert(err, ownerAgents,
                               [ownerAgents EXCEPT ![sender][agent] = FALSE])
      /\ lastCall' = [NoCall EXCEPT !.fn = "revokeAgent", !.sender = sender,
                                    !.agent = agent, !.err = err,
                                    !.at = IF err = "ok" THEN "ok" ELSE "owner"]
      /\ UNCHANGED <<policies, usedProofs, executed, now>>

revokeAgent_LeavesActive(sender, agent) ==
  LET config == agents[agent]
      err == IF config.owner # sender THEN "AgentNotAuthorized" ELSE "ok"
  IN  /\ lastCall = NoCall
      /\ agents' = agents
      /\ ownerAgents' = Revert(err, ownerAgents,
                               [ownerAgents EXCEPT ![sender][agent] = FALSE])
      /\ lastCall' = [NoCall EXCEPT !.fn = "revokeAgent", !.sender = sender,
                                    !.agent = agent, !.err = err,
                                    !.at = IF err = "ok" THEN "ok" ELSE "owner"]
      /\ UNCHANGED <<policies, usedProofs, executed, now>>

revokeAgent(sender, agent) ==
  LET config == agents[agent]
      err == IF config.owner # sender THEN "AgentNotAuthorized" ELSE "ok"
  IN  /\ lastCall = NoCall
      /\ agents' = Revert(err, agents, [agents EXCEPT ![agent].isActive = FALSE])
      /\ ownerAgents' = Revert(err, ownerAgents,
                               [ownerAgents EXCEPT ![sender][agent] = FALSE])
      /\ lastCall' = [NoCall EXCEPT !.fn = "revokeAgent", !.sender = sender,
                                    !.agent = agent, !.err = err,
                                    !.at = IF err = "ok" THEN "ok" ELSE "owner"]
      /\ UNCHANGED <<policies, usedProofs, executed, now>>

\* ------------------------------------------------------------------------
\* View functions
\* ------------------------------------------------------------------------
getPolicy(policyHash) == policies[policyHash]

\* the hash taken over the fields as they were submitted
getPolicyHash_EncodesAsSubmitted(policy) ==
  <<"keccak256", policy.dailyLimit, policy.maxSingleTx, policy.maxLTV,
    policy.minHealthFactor, policy.allowedMarkets, policy.requireProofForSupply,
    policy.requireProofForBorrow, policy.requireProofForWithdraw>>

getPolicyHash(policy) == computePolicyHash(policy)

getAgentConfig(agent) == agents[agent]

isAgentAuthorized(agent, owner) == ownerAgents[owner][agent] /\ agents[agent].isActive

getDailySpent(agent) ==
  LET config == agents[agent]
  IN  IF shouldResetDailyLimit(config.lastResetTimestamp, now) THEN 0
      ELSE config.dailySpent

getRemainingDailyLimit(agent) ==
  LET config == agents[agent]
      policy == policies[config.policyHash]
      spent == IF shouldResetDailyLimit(config.lastResetTimestamp, now) THEN 0
               ELSE config.dailySpent
  IN  IF spent >= policy.dailyLimit THEN 0 ELSE policy.dailyLimit - spent

\* a call of a read-only function: it returns and writes nothing
ViewFns ==
  {"getPolicy", "getPolicyHash", "getAgentConfig", "isAgentAuthorized", "getDailySpent",
   "getRemainingDailyLimit", "verifyProof"}

viewCall(fn, sender, agent) ==
  /\ lastCall = NoCall
  /\ lastCall' = [NoCall EXCEPT !.fn = fn, !.sender = sender, !.agent = agent,
                                !.err = "ok", !.at = "ok"]
  /\ UNCHANGED <<policies, agents, ownerAgents, usedProofs, executed, now>>

\* ------------------------------------------------------------------------
\* Gated operations
\* ------------------------------------------------------------------------
\* the outcome of the two external calls of a gated operation: whether
\* verifier.verify and the Morpho call return rather than revert
Completes == [verifier |-> TRUE, morpho |-> TRUE]
Externals ==
  {Completes, [verifier |-> FALSE, morpho |-> TRUE], [verifier |-> TRUE, morpho |-> FALSE]}

\* the proof hash is marked as used
consume_ForgetsOlder(used, proofHash) == {proofHash}

consume(used, proofHash) == used \cup {proofHash}

\* the Morpho call at the end of a gated operation: its revert reverts the
\* operation
morphoCall_IgnoresFailure(check, external) == check

morphoCall(check, external) ==
  IF check = "ok" /\ ~external.morpho THEN "morphoCall" ELSE check

\* the storage a gated operation reads and writes
CurrentStorage == [agents |-> agents, usedProofs |-> usedProofs, executed |-> executed]

\* what a gated operation does to the storage st it starts from: validate,
\* check the limits when runLimits, update the spend when trackSpend, call
\* Morpho; the result is the error, the check that reverted and the storage
\* left behind
gatedResult(st, sender, operationType, market, assets, proof, verdict, external, runLimits, trackSpend) ==
  LET config == st.agents[sender]
      policy == policies[config.policyHash]
      proofHash == keccak256(proof.proof)
      \* the gate gets as far as calling the verifier
      callsVerifier == validateAgentAndProof(config, st.usedProofs, proof, FALSE, assets,
                                             market, operationType, sender) = "verifier"
      gateCheck == IF ~external.verifier /\ callsVerifier THEN "verifierCall"
                   ELSE validateAgentAndProof(config, st.usedProofs, proof, verdict,
                                              assets, market, operationType, sender)
      limitCheck == IF runLimits THEN validateLimits(config, policy, assets, market)
                    ELSE "ok"
      checked == IF gateCheck # "ok" THEN gateCheck ELSE limitCheck
      check == morphoCall(checked, external)
      err == ErrorOf(check)
      \* the writes made up to the point where the call stops
      usedReached == IF gateCheck = "ok" THEN consume(st.usedProofs, proofHash)
                     ELSE st.usedProofs
      agentsReached == IF checked = "ok" /\ trackSpend
                       THEN [st.agents EXCEPT ![sender] = updateDailySpent(config, assets)]
                       ELSE st.agents
      executedReached == IF checked = "ok" /\ external.morpho
                         THEN [st.executed EXCEPT ![proofHash] = @ + 1]
                         ELSE st.executed
  IN  [err |-> err, at |-> check,
       usedProofs |-> Revert(err, st.usedProofs, usedReached),
       agents |-> Revert(err, st.agents, agentsReached),
       executed |-> Revert(err, st.executed, executedReached)]

\* whether each gated operation runs the limit checks and updates the spend
runsLimits(operationType, policy) ==
  CASE operationType = OPERATION_SUPPLY -> ~policy.requireProofForSupply
    [] operationType = OPERATION_BORROW -> TRUE
    [] operationType = OPERATION_WITHDRAW -> policy.requireProofForWithdraw
    [] operationType = OPERATION_REPAY -> FALSE

tracksSpend(operationType) == operationType # OPERATION_REPAY

\* the outcome of the gated operation of type operationType
operationResultFrom(st, sender, operationType, market, assets, proof, verdict, external) ==
  gatedResult(st, sender, operationType, market, assets, proof, verdict, external,
              runsLimits(operationType, policies[st.agents[sender].policyHash]),
              tracksSpend(operationType))

\* the outcome of the gated operation in the current storage
operationResult(sender, operationType, market, assets, proof, verdict, external) ==
  operationResultFrom(CurrentStorage, sender, operationType, market, assets, proof,
                      verdict, external)

gatedOperation(fn, sender, operationType, market, assets, proof, verdict, external) ==
  LET r == operationResult(sender, operationType, market, assets, proof, verdict,
                           external)
  IN  /\ lastCall = NoCall
      /\ usedProofs' = r.usedProofs
      /\ agents' = r.agents
      /\ executed' = r.executed
      /\ lastCall' = [NoCall EXCEPT !.fn = fn, !.sender = sender, !.market = market,
                                    !.amount = assets,
                                    !.proofHash = keccak256(proof.proof),
                                    !.err = r.err, !.at = r.at]
      /\ UNCHANGED <<policies, ownerAgents, now>>

supplyWithProof(sender, market, assets, proof, verdict, external) ==
  gatedOperation("supplyWithProof", sender, OPERATION_SUPPLY, market, assets, proof,
                 verdict, external)

borrowWithProof(sender, market, assets, proof, verdict, external) ==
  gatedOperation("borrowWithProof", sender, OPERATION_BORROW, market, assets, proof,
                 verdict, external)

withdrawWithProof(sender, market, assets, proof, verdict, external) ==
  gatedOperation("withdrawWithProof", sender, OPERATION_WITHDRAW, market, assets, proof,
                 verdict, external)

repayWithProof(sender, market, assets, proof, verdict, external) ==
  gatedOperation("repayWithProof", sender, OPERATION_REPAY, market, assets, proof,
                 verdict, external)

\* ------------------------------------------------------------------------
\* The order of effects inside a gated operation
\* ------------------------------------------------------------------------
NoEvent ==
  [name |-> "none", sender |-> ZeroAddr, policyHash |-> ZeroHash, market |-> ZeroAddr,
   amount |-> 0, proofHash |-> ZeroProofHash]

\* event ProofVerified(agent, policyHash, proofHash)
ProofVerified(sender, policyHash, proofHash) ==
  [NoEvent EXCEPT !.name = "ProofVerified", !.sender = sender,
                  !.policyHash = policyHash, !.proofHash = proofHash]

\* the event each operation emits after its Morpho call
ExecutedName(operationType) ==
  CASE operationType = OPERATION_SUPPLY -> "SupplyExecuted"
    [] operationType = OPERATION_BORROW -> "BorrowExecuted"
    [] operationType = OPERATION_WITHDRAW -> "WithdrawExecuted"
    [] operationType = OPERATION_REPAY -> "RepayExecuted"

\* events SupplyExecuted, BorrowExecuted, WithdrawExecuted, RepayExecuted
\* (agent, market, assets, proofHash)
Executed(operationType, sender, market, assets, proofHash) ==
  [NoEvent EXCEPT !.name = ExecutedName(operationType), !.sender = sender,
                  !.market = market, !.amount = assets, !.proofHash = proofHash]

\* one effect of a transaction: a check that may revert, a storage write, an
\* external call, an emitted event, the revert that ends it
Check(what) == [kind |-> "check", what |-> what, event |-> NoEvent]
Write(what) == [kind |-> "write", what |-> what, event |-> NoEvent]
Call(what) == [kind |-> "call", what |-> what, event |-> NoEvent]
Emit(event) == [kind |-> "emit", what |-> event.name, event |-> event]
Reverted(err) == [kind |-> "revert", what |-> err, event |-> NoEvent]

validateAgentAndProofSteps_ConsumesEarly(sender, proof) ==
  <<Check("isActive"), Check("usedProofs"), Check("timestamp"), Call("verifierCall"),
    Check("verifier"), Check("policyHash"), Check("operationType"), Check("amount"),
    Check("market"), Check("agent"), Write("usedProofs"), Check("signature"),
    Emit(ProofVerified(sender, proof.policyHash, keccak256(proof.proof)))>>

\* the statements of _validateAgentAndProof in the order it executes them
validateAgentAndProofSteps(sender, proof) ==
  <<Check("isActive"), Check("usedProofs"), Check("timestamp"), Call("verifierCall"),
    Check("verifier"), Check("policyHash"), Check("operationType"), Check("amount"),
    Check("market"), Check("agent"), Check("signature"), Write("usedProofs"),
    Emit(ProofVerified(sender, proof.policyHash, keccak256(proof.proof)))>>

\* the statements of _validateLimits
validateLimitsSteps == <<Check("allowedMarkets"), Check("maxSingleTx"), Check("dailyLimit")>>

operationSteps_EmitsTwice(sender, operationType, market, assets, proof, runLimits, trackSpend) ==
  validateAgentAndProofSteps(sender, proof)
    \o (IF runLimits THEN validateLimitsSteps ELSE <<>>)
    \o (IF trackSpend THEN <<Write("dailySpent")>> ELSE <<>>)
    \o <<Emit(Executed(operationType, sender, market, assets, keccak256(proof.proof))),
         Call("morphoCall"),
         Emit(Executed(operationType, sender, market, assets, keccak256(proof.proof)))>>

\* the statements of a gated operation: the gate, the limits when runLimits,
\* _updateDailySpent when trackSpend, the Morpho call and the event
operationSteps(sender, operationType, market, assets, proof, runLimits, trackSpend) ==
  validateAgentAndProofSteps(sender, proof)
    \o (IF runLimits THEN validateLimitsSteps ELSE <<>>)
    \o (IF trackSpend THEN <<Write("dailySpent")>> ELSE <<>>)
    \o <<Call("morphoCall"),
         Emit(Executed(operationType, sender, market, assets, keccak256(proof.proof)))>>

\* the effects of a gated operation started from the storage st, in order:
\* its statements up to the check or external call that reverts, then the
\* revert; all of them when nothing reverts
gatedEffects(st, sender, operationType, market, assets, proof, verdict, external) ==
  LET r == operationResultFrom(st, sender, operationType, market, assets, proof,
                               verdict, external)
      steps == operationSteps(sender, operationType, market, assets, proof,
                              runsLimits(operationType,
                                         policies[st.agents[sender].policyHash]),
                              tracksSpend(operationType))
      stop == CHOOSE i \in 1..Len(steps) :
                steps[i].kind \in {"check", "call"} /\ steps[i].what = r.at
  IN  IF r.at = "ok" THEN steps ELSE SubSeq(steps, 1, stop) \o <<Reverted(r.err)>>

\* the events a transaction with these effects leaves in the log: a revert
\* discards them
emitted(effects) ==
  LET emits == SelectSeq(effects, LAMBDA e : e.kind = "emit")
  IN  IF effects[Len(effects)].kind = "revert" THEN <<>>
      ELSE [i \in 1..Len(emits) |-> emits[i].event]

\* ------------------------------------------------------------------------
\* Environment
\* ------------------------------------------------------------------------
\* block.timestamp advances between transactions
Tick(delta) ==
  /\ lastCall = NoCall
  /\ now + delta <= StartTime + MaxElapsed
  /\ now' = now + delta
  /\ UNCHANGED <<policies, agents, ownerAgents, usedProofs, executed, lastCall>>

\* the transaction is mined; the next one starts from the committed storage
Return ==
  /\ lastCall # NoCall
  /\ lastCall' = NoCall
  /\ UNCHANGED <<policies, agents, ownerAgents, usedProofs, executed, now>>

\* ------------------------------------------------------------------------
\* Call data tried by the exploration
\* ------------------------------------------------------------------------
\* the proof an honest prover issues for the call, aged by age seconds
HonestProof(sender, operationType, market, assets, bytes, age) ==
  [policyHash |-> agents[sender].policyHash, proof |-> bytes,
   publicInputs |-> <<operationType, assets, market, sender, Nonce>>,
   timestamp |-> now - age,
   signature |-> Sign(sender, <<keccak256(bytes), Nonce>>)]

\* the fields of the call data an attacker or a faulty prover can change
Fields ==
  {"timestamp", "verifier", "policyHash", "operationType", "amount", "market",
   "agent", "signer"}

\* the values tried for a field of the honest proof h: every age of the proof,
\* the honest one among them, and for the other fields every value but h's
FieldValues(h, field) ==
  CASE field = "timestamp" -> ProofAges
    [] field = "verifier" -> {FALSE}
    [] field = "policyHash" -> PolicyHashes \ {h.policyHash}
    [] field = "operationType" -> Ops \ {h.publicInputs[1]}
    [] field = "amount" -> Amounts \ {h.publicInputs[2]}
    [] field = "market" -> Markets \ {h.publicInputs[3]}
    [] field = "agent" -> Agents \ {h.publicInputs[4]}
    [] field = "signer" -> Agents \ {h.signature.signer}

\* the honest proof h with one field set to x
Tampered(h, field, x) ==
  CASE field = "timestamp" -> [h EXCEPT !.timestamp = now - x]
    [] field = "verifier" -> h
    [] field = "policyHash" -> [h EXCEPT !.policyHash = x]
    [] field = "operationType" -> [h EXCEPT !.publicInputs[1] = x]
    [] field = "amount" -> [h EXCEPT !.publicInputs[2] = x]
    [] field = "market" -> [h EXCEPT !.publicInputs[3] = x]
    [] field = "agent" -> [h EXCEPT !.publicInputs[4] = x]
    [] field = "signer" -> [h EXCEPT !.signature.signer = x]

\* the verifier accepts what the prover issued unless it is made to reject
Verdict(field, x) == IF field = "verifier" THEN x ELSE TRUE

\* the proof an honest prover issues for the call just before it is made
Issued(sender, operationType, market, assets, bytes) ==
  HonestProof(sender, operationType, market, assets, bytes, 299)

\* the proof submitted with a call: the honest one with field set to x
ProofFor(sender, operationType, market, assets, bytes, field, x) ==
  Tampered(Issued(sender, operationType, market, assets, bytes), field, x)

\* ------------------------------------------------------------------------
\* The gate: every caller, every defect of the proof
\* ------------------------------------------------------------------------
\* no transaction is being executed
Idle == lastCall = NoCall

Next ==
  /\ \/ \E p \in PolicyCatalogue : registerPolicy("o1", p)
     \/ \E a \in Agents, h \in PolicyHashes : authorizeAgent("o1", a, h)
     \/ \E a \in Agents : revokeAgent("o1", a)
     \/ Idle /\ \E a \in Agents, m \in Markets, x \in Amounts, b \in ProofBytes :
          \E f \in Fields : \E v \in FieldValues(Issued(a, OPERATION_SUPPLY, m, x, b), f) :
             supplyWithProof(a, m, x, ProofFor(a, OPERATION_SUPPLY, m, x, b, f, v),
                             Verdict(f, v), Completes)
     \/ Idle /\ \E a \in Agents, m \in Markets, x \in Amounts, b \in ProofBytes :
          \E f \in Fields : \E v \in FieldValues(Issued(a, OPERATION_BORROW, m, x, b), f) :
             borrowWithProof(a, m, x, ProofFor(a, OPERATION_BORROW, m, x, b, f, v),
                             Verdict(f, v), Completes)
     \/ Idle /\ \E a \in Agents, m \in Markets, x \in Amounts, b \in ProofBytes :
          \E f \in Fields : \E v \in FieldValues(Issued(a, OPERATION_WITHDRAW, m, x, b), f) :
             withdrawWithProof(a, m, x, ProofFor(a, OPERATION_WITHDRAW, m, x, b, f, v),
                               Verdict(f, v), Completes)
     \/ Idle /\ \E a \in Agents, m \in Markets, x \in Amounts, b \in ProofBytes :
          \E f \in Fields : \E v \in FieldValues(Issued(a, OPERATION_REPAY, m, x, b), f) :
             repayWithProof(a, m, x, ProofFor(a, OPERATION_REPAY, m, x, b, f, v),
                            Verdict(f, v), Completes)
     \/ Return
  /\ UNCHANGED <<borrowed, events, manager>>

Spec == Init /\ [][Next]_vars

\* ------------------------------------------------------------------------
\* The limits: one agent under DEFAULT_POLICY, honest proofs, days passing
\* ------------------------------------------------------------------------
NextLimits ==
  /\ \/ registerPolicy("o1", DEFAULT_POLICY)
     \/ authorizeAgent("o1", "a1", computePolicyHash(DEFAULT_POLICY))
     \/ Idle /\ \E x \in LimitAmounts, b \in LimitProofBytes :
          supplyWithProof("a1", "m1", x,
                          HonestProof("a1", OPERATION_SUPPLY, "m1", x, b, 299), TRUE,
                          Completes)
     \/ Idle /\ \E m \in Markets, x \in LimitAmounts, b \in LimitProofBytes :
          borrowWithProof("a1", m, x,
                          HonestProof("a1", OPERATION_BORROW, m, x, b, 299), TRUE,
                          Completes)
     \/ Idle /\ \E x \in LimitAmounts, b \in LimitProofBytes :
          withdrawWithProof("a1", "m1", x,
                          HonestProof("a1", OPERATION_WITHDRAW, "m1", x, b, 299), TRUE,
                          Completes)
     \/ Idle /\ \E x \in LimitAmounts, b \in LimitProofBytes :
          repayWithProof("a1", "m1", x,
                          HonestProof("a1", OPERATION_REPAY, "m1", x, b, 299), TRUE,
                          Completes)
     \/ \E d \in TickDeltas : Tick(d)
     \/ Return
  /\ UNCHANGED <<borrowed, events, manager>>

SpecLimits == Init /\ [][NextLimits]_vars

\* ------------------------------------------------------------------------
\* Policy and agent management: two owners of one agent, a zero-limit policy,
\* a hash that is never registered, borrows in between and time passing
\* ------------------------------------------------------------------------
AdminPolicies == {DEFAULT_POLICY, ZeroLimitPolicy}
AdminHashes == {computePolicyHash(p) : p \in AdminPolicies \cup {ConservativePolicy}}

NextAdmin ==
  /\ \/ \E p \in AdminPolicies : registerPolicy("o1", p)
     \/ \E o \in Owners, h \in AdminHashes : authorizeAgent(o, "a1", h)
     \/ \E o \in Owners : revokeAgent(o, "a1")
     \/ Idle /\ \E b \in ProofBytes :
          borrowWithProof("a1", "m1", 5000,
                          HonestProof("a1", OPERATION_BORROW, "m1", 5000, b, 299), TRUE,
                          Completes)
     \/ Tick(86399)
     \/ Return
  /\ UNCHANGED <<borrowed, events, manager>>

SpecAdmin == Init /\ [][NextAdmin]_vars

\* ------------------------------------------------------------------------
\* Two agents under DEFAULT_POLICY, honest proofs, and external calls that
\* may revert
\* ------------------------------------------------------------------------
NextAgents ==
  /\ \/ registerPolicy("o1", DEFAULT_POLICY)
     \/ \E a \in Agents : authorizeAgent("o1", a, computePolicyHash(DEFAULT_POLICY))
     \/ Idle /\ \E a \in Agents, x \in Amounts, b \in LimitProofBytes, e \in Externals :
          supplyWithProof(a, "m1", x, HonestProof(a, OPERATION_SUPPLY, "m1", x, b, 299),
                          TRUE, e)
     \/ Idle /\ \E a \in Agents, x \in Amounts, b \in LimitProofBytes, e \in Externals :
          borrowWithProof(a, "m1", x, HonestProof(a, OPERATION_BORROW, "m1", x, b, 299),
                          TRUE, e)
     \/ Idle /\ \E a \in Agents, x \in Amounts, b \in LimitProofBytes, e \in Externals :
          withdrawWithProof(a, "m1", x,
                            HonestProof(a, OPERATION_WITHDRAW, "m1", x, b, 299), TRUE, e)
     \/ Idle /\ \E a \in Agents, x \in Amounts, b \in LimitProofBytes, e \in Externals :
          repayWithProof(a, "m1", x, HonestProof(a, OPERATION_REPAY, "m1", x, b, 299),
                         TRUE, e)
     \/ Return
  /\ UNCHANGED <<borrowed, events, manager>>

SpecAgents == Init /\ [][NextAgents]_vars

\* ------------------------------------------------------------------------
\* The spend over time: one agent under DEFAULT_POLICY borrowing with honest
\* proofs while days pass; borrowed records each executed borrow and starts
\* afresh when the agent is authorized
\* ------------------------------------------------------------------------
Borrowed(x) ==
  IF lastCall'.err = "ok" THEN Append(borrowed, [at |-> now, amount |-> x])
  ELSE borrowed

NextWindow ==
  \/ registerPolicy("o1", DEFAULT_POLICY) /\ UNCHANGED <<borrowed, events, manager>>
  \/ /\ authorizeAgent("o1", "a1", computePolicyHash(DEFAULT_POLICY))
     /\ borrowed' = <<>>
     /\ UNCHANGED <<events, manager>>
  \/ Idle /\ \E x \in LimitAmounts, b \in LimitProofBytes :
       /\ borrowWithProof("a1", "m1", x,
                          HonestProof("a1", OPERATION_BORROW, "m1", x, b, 299), TRUE,
                          Completes)
       /\ borrowed' = Borrowed(x)
       /\ UNCHANGED <<events, manager>>
  \/ \E d \in TickDeltas : Tick(d) /\ UNCHANGED <<borrowed, events, manager>>
  \/ Return /\ UNCHANGED <<borrowed, events, manager>>

SpecWindow == Init /\ [][NextWindow]_vars

\* ------------------------------------------------------------------------
\* The policy store: policies submitted by two owners, one of them in both
\* orders of its markets, and an agent borrowing under what is stored
\* ------------------------------------------------------------------------
SubmittedPolicies ==
  {DEFAULT_POLICY, ConservativePolicy, ConservativeReordered, ZeroLimitPolicy}

NextPolicies ==
  /\ \/ \E o \in Owners, p \in SubmittedPolicies : registerPolicy(o, p)
     \/ \E p \in SubmittedPolicies : authorizeAgent("o1", "a1", getPolicyHash(p))
     \/ Idle /\ \E m \in Markets, b \in ProofBytes :
          borrowWithProof("a1", m, 2500,
                          HonestProof("a1", OPERATION_BORROW, m, 2500, b, 299), TRUE,
                          Completes)
     \/ Return
  /\ UNCHANGED <<borrowed, events, manager>>

SpecPolicies == Init /\ [][NextPolicies]_vars

\* ------------------------------------------------------------------------
\* Several defects at once: one agent under either policy, proofs with any
\* set of their fields wrong, replayed proofs, a revoked agent
\* ------------------------------------------------------------------------
\* no defect, one, two, or all of them
DefectSets == {D \in SUBSET Fields : Cardinality(D) <= 2} \cup {Fields}

\* the value a defective field of the honest proof h carries
Defect(h, field) ==
  CASE field = "timestamp" -> 301
    [] field = "verifier" -> FALSE
    [] field = "policyHash" -> CHOOSE g \in PolicyHashes : g # h.policyHash
    [] field = "operationType" -> CHOOSE op \in Ops : op # h.publicInputs[1]
    [] field = "amount" -> CHOOSE x \in Amounts : x # h.publicInputs[2]
    [] field = "market" -> CHOOSE m \in Markets : m # h.publicInputs[3]
    [] field = "agent" -> CHOOSE a \in Agents : a # h.publicInputs[4]
    [] field = "signer" -> CHOOSE a \in Agents : a # h.signature.signer

\* the honest proof h with every field of D defective
Defective(h, D) ==
  [policyHash |-> IF "policyHash" \in D THEN Defect(h, "policyHash") ELSE h.policyHash,
   proof |-> h.proof,
   publicInputs |->
     <<IF "operationType" \in D THEN Defect(h, "operationType") ELSE h.publicInputs[1],
       IF "amount" \in D THEN Defect(h, "amount") ELSE h.publicInputs[2],
       IF "market" \in D THEN Defect(h, "market") ELSE h.publicInputs[3],
       IF "agent" \in D THEN Defect(h, "agent") ELSE h.publicInputs[4],
       h.publicInputs[5]>>,
   timestamp |-> IF "timestamp" \in D THEN now - Defect(h, "timestamp") ELSE h.timestamp,
   signature |-> IF "signer" \in D
                 THEN [h.signature EXCEPT !.signer = Defect(h, "signer")]
                 ELSE h.signature]

\* the proof submitted with a call and the verdict of the verifier on it
DefectiveProof(sender, operationType, market, assets, bytes, D) ==
  Defective(Issued(sender, operationType, market, assets, bytes), D)
DefectiveVerdict(D) == "verifier" \notin D

NextDefects ==
  /\ \/ \E p \in PolicyCatalogue : registerPolicy("o1", p)
     \/ \E p \in PolicyCatalogue : authorizeAgent("o1", "a1", getPolicyHash(p))
     \/ revokeAgent("o1", "a1")
     \/ Idle /\ \E m \in Markets, x \in Amounts, b \in ProofBytes, D \in DefectSets :
          supplyWithProof("a1", m, x,
                          DefectiveProof("a1", OPERATION_SUPPLY, m, x, b, D),
                          DefectiveVerdict(D), Completes)
     \/ Idle /\ \E m \in Markets, x \in Amounts, b \in ProofBytes, D \in DefectSets :
          borrowWithProof("a1", m, x,
                          DefectiveProof("a1", OPERATION_BORROW, m, x, b, D),
                          DefectiveVerdict(D), Completes)
     \/ Idle /\ \E m \in Markets, x \in Amounts, b \in ProofBytes, D \in DefectSets :
          withdrawWithProof("a1", m, x,
                            DefectiveProof("a1", OPERATION_WITHDRAW, m, x, b, D),
                            DefectiveVerdict(D), Completes)
     \/ Idle /\ \E m \in Markets, x \in Amounts, b \in ProofBytes, D \in DefectSets :
          repayWithProof("a1", m, x,
                         DefectiveProof("a1", OPERATION_REPAY, m, x, b, D),
                         DefectiveVerdict(D), Completes)
     \/ Return
  /\ UNCHANGED <<borrowed, events, manager>>

SpecDefects == Init /\ [][NextDefects]_vars

\* ------------------------------------------------------------------------
\* The audit trail: one agent under either policy, honest proofs and proofs
\* with a wrong signer or refused by the verifier, external calls that may
\* revert; events logs what the gated operations emit
\* ------------------------------------------------------------------------
EventDefects == {{}, {"signer"}, {"verifier"}}

\* the log after the gated operation
Logged(sender, operationType, market, assets, proof, verdict, external) ==
  events \o emitted(gatedEffects(CurrentStorage, sender, operationType, market, assets,
                                 proof, verdict, external))

NextEvents ==
  \/ \E p \in PolicyCatalogue : registerPolicy("o1", p) /\ UNCHANGED <<borrowed, events, manager>>
  \/ \E p \in PolicyCatalogue :
       authorizeAgent("o1", "a1", getPolicyHash(p)) /\ UNCHANGED <<borrowed, events, manager>>
  \/ Idle /\ \E b \in ProofBytes, D \in EventDefects, e \in Externals :
       /\ supplyWithProof("a1", "m1", 5000, DefectiveProof("a1", OPERATION_SUPPLY, "m1", 5000, b, D),
                          DefectiveVerdict(D), e)
       /\ events' = Logged("a1", OPERATION_SUPPLY, "m1", 5000,
                           DefectiveProof("a1", OPERATION_SUPPLY, "m1", 5000, b, D),
                           DefectiveVerdict(D), e)
       /\ UNCHANGED <<borrowed, manager>>
  \/ Idle /\ \E b \in ProofBytes, D \in EventDefects, e \in Externals :
       /\ borrowWithProof("a1", "m1", 5000, DefectiveProof("a1", OPERATION_BORROW, "m1", 5000, b, D),
                          DefectiveVerdict(D), e)
       /\ events' = Logged("a1", OPERATION_BORROW, "m1", 5000,
                           DefectiveProof("a1", OPERATION_BORROW, "m1", 5000, b, D),
                           DefectiveVerdict(D), e)
       /\ UNCHANGED <<borrowed, manager>>
  \/ Idle /\ \E b \in ProofBytes, D \in EventDefects, e \in Externals :
       /\ withdrawWithProof("a1", "m1", 5000,
                            DefectiveProof("a1", OPERATION_WITHDRAW, "m1", 5000, b, D),
                            DefectiveVerdict(D), e)
       /\ events' = Logged("a1", OPERATION_WITHDRAW, "m1", 5000,
                           DefectiveProof("a1", OPERATION_WITHDRAW, "m1", 5000, b, D),
                           DefectiveVerdict(D), e)
       /\ UNCHANGED <<borrowed, manager>>
  \/ Idle /\ \E b \in ProofBytes, D \in EventDefects, e \in Externals :
       /\ repayWithProof("a1", "m1", 5000, DefectiveProof("a1", OPERATION_REPAY, "m1", 5000, b, D),
                         DefectiveVerdict(D), e)
       /\ events' = Logged("a1", OPERATION_REPAY, "m1", 5000,
                           DefectiveProof("a1", OPERATION_REPAY, "m1", 5000, b, D),
                           DefectiveVerdict(D), e)
       /\ UNCHANGED <<borrowed, manager>>
  \/ Return /\ UNCHANGED <<borrowed, events, manager>>

SpecEvents == Init /\ [][NextEvents]_vars

\* ------------------------------------------------------------------------
\* The spend counters: two agents of one owner under DEFAULT_POLICY, proofs
\* that pass and proofs with a wrong signer, revocation, the read-only
\* functions, and days passing
\* ------------------------------------------------------------------------
FrameDefects == {{}, {"signer"}}

NextFrame ==
  /\ \/ registerPolicy("o1", DEFAULT_POLICY)
     \/ \E a \in Agents : authorizeAgent("o1", a, getPolicyHash(DEFAULT_POLICY))
     \/ \E o \in Owners, a \in Agents : revokeAgent(o, a)
     \/ \E fn \in ViewFns, a \in Agents : viewCall(fn, "o2", a)
     \/ Idle /\ \E a \in Agents, b \in ProofBytes, D \in FrameDefects :
          supplyWithProof(a, "m1", 5000,
                          DefectiveProof(a, OPERATION_SUPPLY, "m1", 5000, b, D),
                          DefectiveVerdict(D), Completes)
     \/ Idle /\ \E a \in Agents, b \in ProofBytes, D \in FrameDefects :
          borrowWithProof(a, "m1", 5000,
                          DefectiveProof(a, OPERATION_BORROW, "m1", 5000, b, D),
                          DefectiveVerdict(D), Completes)
     \/ Idle /\ \E a \in Agents, b \in ProofBytes, D \in FrameDefects :
          withdrawWithProof(a, "m1", 5000,
                            DefectiveProof(a, OPERATION_WITHDRAW, "m1", 5000, b, D),
                            DefectiveVerdict(D), Completes)
     \/ Idle /\ \E a \in Agents, b \in ProofBytes, D \in FrameDefects :
          repayWithProof(a, "m1", 5000,
                         DefectiveProof(a, OPERATION_REPAY, "m1", 5000, b, D),
                         DefectiveVerdict(D), Completes)
     \/ Tick(DAY_IN_SECONDS)
     \/ Return
  /\ UNCHANGED <<borrowed, events, manager>>

SpecFrame == Init /\ [][NextFrame]_vars

\* ------------------------------------------------------------------------
\* demo-app/agent-vault-manager: the AgentVaultManager and its loop
\* ------------------------------------------------------------------------
\* the variables of the gate, which the manager leaves alone
gateVars ==
  <<policies, agents, ownerAgents, usedProofs, executed, now, lastCall, borrowed,
    events>>

STRATEGIES ==
  [conservativeYield |-> [minSupplyAPY |-> 3, maxBorrowAPY |-> 5, targetLTV |-> 30,
                          rebalanceThreshold |-> 5],
   moderateLeverage |-> [minSupplyAPY |-> 4, maxBorrowAPY |-> 8, targetLTV |-> 50,
                         rebalanceThreshold |-> 10],
   aggressiveYield |-> [minSupplyAPY |-> 5, maxBorrowAPY |-> 12, targetLTV |-> 70,
                        rebalanceThreshold |-> 15]]

\* the configuration the manager is constructed with: two target markets, the
\* five minute interval, and a daily budget small enough to be used up
agentConfig ==
  [policy |-> DEFAULT_POLICY, strategy |-> STRATEGIES.moderateLeverage,
   targetMarkets |-> <<"m1", "m2">>, minOperationInterval |-> 300,
   maxOperationsPerDay |-> MaxOperationsPerDay]

\* what the market reports: the APYs lie in [4.5, 6.5) and [6.2, 9.2)
Conditions == [supplyAPY : {5}, borrowAPY : {7, 9}]

\* the position getPosition returns when nothing is known of the market
InitialPosition ==
  [supplied |-> 0, borrowed |-> 0, currentLTV |-> 0, unrealizedPnL |-> 0]

\* the positions a market can report: none yet, under-leveraged, at its
\* target borrow with a low LTV, over-leveraged, in profit, and at rest
Positions ==
  {InitialPosition,
   [supplied |-> 1000, borrowed |-> 0, currentLTV |-> 0, unrealizedPnL |-> 0],
   [supplied |-> 1000, borrowed |-> 500, currentLTV |-> 30, unrealizedPnL |-> 0],
   [supplied |-> 1000, borrowed |-> 700, currentLTV |-> 70, unrealizedPnL |-> 0],
   [supplied |-> 1000, borrowed |-> 500, currentLTV |-> 50,
    unrealizedPnL |-> 2000000000],
   [supplied |-> 1000, borrowed |-> 500, currentLTV |-> 50, unrealizedPnL |-> 0]}

calculateOptimalSupplyAmount(conditions) == agentConfig.policy.maxSingleTx \div 2

calculateOptimalBorrowAmount(position, conditions) ==
  LET targetBorrow == (position.supplied * agentConfig.strategy.targetLTV) \div 100
  IN  targetBorrow - position.borrowed

calculateRepayAmount(position) ==
  LET targetBorrow == (position.supplied * agentConfig.strategy.targetLTV) \div 100
  IN  position.borrowed - targetBorrow

\* a decision to hold has neither an operation nor an amount
analyzeAndDecide(conditions, position) ==
  LET strategy == agentConfig.strategy
  IN  IF conditions.supplyAPY >= strategy.minSupplyAPY /\ position.supplied = 0
      THEN [shouldExecute |-> TRUE, operation |-> OPERATION_SUPPLY,
            amount |-> calculateOptimalSupplyAmount(conditions)]
      ELSE IF /\ position.supplied > 0
              /\ position.currentLTV < strategy.targetLTV - strategy.rebalanceThreshold
              /\ conditions.borrowAPY <= strategy.maxBorrowAPY
      THEN [shouldExecute |-> TRUE, operation |-> OPERATION_BORROW,
            amount |-> calculateOptimalBorrowAmount(position, conditions)]
      ELSE IF position.currentLTV > strategy.targetLTV + strategy.rebalanceThreshold
      THEN [shouldExecute |-> TRUE, operation |-> OPERATION_REPAY,
            amount |-> calculateRepayAmount(position)]
      ELSE IF position.unrealizedPnL > 1000 * 1000000
      THEN [shouldExecute |-> TRUE, operation |-> OPERATION_WITHDRAW,
            amount |-> position.unrealizedPnL \div 2]
      ELSE [shouldExecute |-> FALSE]

\* !decision.field: the field is undefined or zero
Not(decision, field) == field \notin DOMAIN decision \/ decision[field] = 0

\* the manager's state and the clock after executeWithProof; generated is
\* whether client.generateProof returns a proof or throws, and the simulated
\* transaction takes two seconds
executeWithProof(market, decision, generated) ==
  IF Not(decision, "operation") \/ Not(decision, "amount")
  THEN [state |-> state, clock |-> clock]
  ELSE IF generated
  THEN [state |->
          [state EXCEPT
             !.history = Append(@, [timestamp |-> clock + 2000,
                                    operation |-> decision.operation,
                                    amount |-> decision.amount, market |-> market,
                                    success |-> TRUE]),
             !.dailyOperationCount = @ + 1,
             !.lastOperationTimestamp = clock + 2000],
        clock |-> clock + 2000]
  ELSE [state |->
          [state EXCEPT
             !.history = Append(@, [timestamp |-> clock,
                                    operation |-> decision.operation,
                                    amount |-> decision.amount, market |-> market,
                                    success |-> FALSE])],
        clock |-> clock]

\* new Date().setHours(0, 0, 0, 0), with the day starting at a multiple of 24 h
dayStart == clock - (clock % 86400000)

\* canOperate's answer and the state it leaves
canOperate ==
  LET reset == IF state.lastOperationTimestamp < dayStart
               THEN [state EXCEPT !.dailyOperationCount = 0] ELSE state
  IN  [state |-> reset,
       ok |-> IF reset.dailyOperationCount >= agentConfig.maxOperationsPerDay THEN FALSE
              ELSE IF clock - reset.lastOperationTimestamp
                        < agentConfig.minOperationInterval * 1000 THEN FALSE
              ELSE TRUE]

start ==
  /\ cycle.pc = "stopped"
  /\ ~isRunning
  /\ isRunning' = TRUE
  /\ state' = [state EXCEPT !.isActive = TRUE]
  /\ cycle' = [cycle EXCEPT !.pc = "run"]
  /\ UNCHANGED clock

stop ==
  /\ isRunning
  /\ isRunning' = FALSE
  /\ state' = [state EXCEPT !.isActive = FALSE]
  /\ UNCHANGED <<cycle, clock>>

\* runCycle up to its loop: it returns at once when canOperate says no
runCycle ==
  /\ cycle.pc = "run"
  /\ state' = canOperate.state
  /\ cycle' = IF canOperate.ok /\ Len(agentConfig.targetMarkets) > 0
              THEN [cycle EXCEPT !.pc = "market", !.i = 1]
              ELSE [cycle EXCEPT !.pc = "sleep", !.i = 0]
  /\ UNCHANGED <<isRunning, clock>>

\* one pass of runCycle's loop: the market's conditions and position are
\* read, the decision is taken and, if it is one to execute, executed
visitMarket ==
  /\ cycle.pc = "market"
  /\ Len(state.history) < MaxHistory
  /\ \E conditions \in Conditions, position \in Positions, generated \in BOOLEAN :
       LET market == agentConfig.targetMarkets[cycle.i]
           decision == analyzeAndDecide(conditions, position)
           executes == decision.shouldExecute /\ "operation" \in DOMAIN decision
           after == IF executes THEN executeWithProof(market, decision, generated)
                    ELSE [state |-> state, clock |-> clock]
       IN  /\ executes \/ ~generated
           /\ state' = after.state
           /\ clock' = after.clock
           /\ cycle' = [pc |-> IF cycle.i < Len(agentConfig.targetMarkets) THEN "market"
                               ELSE "sleep",
                        i |-> IF cycle.i < Len(agentConfig.targetMarkets) THEN cycle.i + 1
                              ELSE 0,
                        decision |-> decision, generated |-> generated]
  /\ UNCHANGED isRunning

\* the minute between two cycles, which a late timer makes longer; the loop
\* ends here once stop was called
sleep ==
  /\ cycle.pc = "sleep"
  /\ clock - StartClock < MaxRun
  /\ \E late \in {0, 240000} : clock' = clock + 60000 + late
  /\ cycle' = [cycle EXCEPT !.pc = IF isRunning THEN "run" ELSE "stopped"]
  /\ UNCHANGED <<state, isRunning>>

NextManager ==
  /\ \/ start
     \/ stop
     \/ runCycle
     \/ visitMarket
     \/ sleep
  /\ UNCHANGED gateVars

SpecManager == Init /\ [][NextManager]_vars

\* ------------------------------------------------------------------------
\* Properties
\* ------------------------------------------------------------------------
\* P holds of every gated call the gate exploration can make in this state:
\* its sender, operation, market, amount, proof, verifier verdict and outcome
EveryCall(P(_, _, _, _, _, _, _)) ==
  \A a \in Agents, op \in Ops, m \in Markets, x \in Amounts, b \in ProofBytes :
    \A f \in Fields : \A v \in FieldValues(Issued(a, op, m, x, b), f) :
      P(a, op, m, x, ProofFor(a, op, m, x, b, f, v), Verdict(f, v),
        operationResult(a, op, m, x, ProofFor(a, op, m, x, b, f, v), Verdict(f, v),
                        Completes))

\* the same for the calls of the limit exploration
EveryLimitCall(P(_, _, _, _, _, _, _)) ==
  \A op \in Ops, m \in Markets, x \in LimitAmounts, b \in LimitProofBytes :
    P("a1", op, m, x, HonestProof("a1", op, m, x, b, 299), TRUE,
      operationResult("a1", op, m, x, HonestProof("a1", op, m, x, b, 299), TRUE,
                      Completes))

\* a step that executes a gated call
GatedStep == Idle /\ lastCall'.fn \in GatedFns

IsActive(a) == agents[a].isActive
Unused(proof) == keccak256(proof.proof) \notin usedProofs
Fresh(proof) == proof.timestamp <= now /\ now - proof.timestamp <= 300
BoundPolicy(a) == policies[agents[a].policyHash]
MetadataMatches(proof, a, op, m, x) ==
  /\ proof.publicInputs[1] = op
  /\ proof.publicInputs[2] = x
  /\ proof.publicInputs[3] = m
  /\ proof.publicInputs[4] = a
SignedBy(proof, a) ==
  proof.signature = Sign(a, <<keccak256(proof.proof), proof.publicInputs[5]>>)
MarketSet(policy) == {policy.allowedMarkets[i] : i \in 1..Len(policy.allowedMarkets)}
EffectiveSpent(a) ==
  IF now - agents[a].lastResetTimestamp >= 86400 THEN 0 ELSE agents[a].dailySpent
WithinLimits(a, m, x) ==
  /\ m \in MarketSet(BoundPolicy(a))
  /\ x <= BoundPolicy(a).maxSingleTx
  /\ EffectiveSpent(a) + x <= BoundPolicy(a).dailyLimit

\* C1: a proof is used at most once: Morpho is called at most once per proof
\* hash, a successful call leaves its proof hash consumed, and a later gated
\* call carrying a consumed proof executes nothing and, when its caller is an
\* active agent, fails with InvalidProof
C1_SingleUse ==
  [][ /\ \A h \in ProofHashes : executed'[h] <= 1
      /\ GatedStep /\ lastCall'.err = "ok" => lastCall'.proofHash \in usedProofs'
      /\ GatedStep /\ lastCall'.proofHash \in usedProofs =>
           /\ lastCall'.err # "ok"
           /\ executed' = executed
           /\ IsActive(lastCall'.sender) => lastCall'.err = "InvalidProof" ]_vars

\* an active agent replayed a proof that had been executed and got InvalidProof
C1_Witness ==
  /\ lastCall.fn \in GatedFns
  /\ lastCall.at = "usedProofs"
  /\ lastCall.err = "InvalidProof"
  /\ executed[lastCall.proofHash] = 1

C2_Body(a, op, m, x, proof, verdict, r) ==
  r.executed # executed =>
    /\ IsActive(a)
    /\ Unused(proof)
    /\ Fresh(proof)
    /\ verdict
    /\ proof.policyHash = agents[a].policyHash
    /\ MetadataMatches(proof, a, op, m, x)
    /\ SignedBy(proof, a)
    /\ r.err = "ok"

\* C2: no proof, no transaction: a gated call reaches Morpho only when the
\* caller is active, the proof unused, fresh, accepted by the verifier, bound
\* to the caller's policy hash, attested for exactly this call and signed
C2_NoProofNoTransaction == Idle => EveryCall(C2_Body)

\* a gated call went through to Morpho
C2_Witness ==
  /\ lastCall.fn \in GatedFns
  /\ lastCall.err = "ok"
  /\ executed[lastCall.proofHash] = 1

\* C3: a successful revokeAgent leaves the agent inactive, only a successful
\* authorizeAgent for that agent makes it active again, and every gated call
\* of an inactive agent fails with AgentNotAuthorized without calling Morpho
C3_Revocation ==
  [][ /\ Idle /\ lastCall'.fn = "revokeAgent" /\ lastCall'.err = "ok" =>
           ~agents'[lastCall'.agent].isActive
      /\ \A a \in Agents : ~agents[a].isActive /\ agents'[a].isActive =>
           /\ lastCall'.fn = "authorizeAgent"
           /\ lastCall'.agent = a
           /\ lastCall'.err = "ok"
      /\ GatedStep /\ ~IsActive(lastCall'.sender) =>
           /\ lastCall'.err = "AgentNotAuthorized"
           /\ executed' = executed ]_vars

\* a revoked agent made a gated call and got AgentNotAuthorized
C3_Witness ==
  /\ lastCall.fn \in GatedFns
  /\ lastCall.err = "AgentNotAuthorized"
  /\ agents[lastCall.sender].owner # ZeroAddr
  /\ ~agents[lastCall.sender].isActive

\* C4: a rejected gated call changes nothing: policies, agent configs, owner
\* bookkeeping, consumed proofs and Morpho calls are as before; a proof
\* rejected by the limit checks is not consumed
C4_RejectionChangesNothing ==
  [][ GatedStep /\ lastCall'.err # "ok" =>
        /\ UNCHANGED storage
        /\ (lastCall'.at \in {"allowedMarkets", "maxSingleTx", "dailyLimit"} =>
              lastCall'.proofHash \notin usedProofs') ]_vars

\* a call passed the gate, was rejected by a limit check, and its proof is
\* still unused
C4_Witness ==
  /\ lastCall.fn \in GatedFns
  /\ lastCall.at \in {"allowedMarkets", "maxSingleTx", "dailyLimit"}
  /\ lastCall.proofHash \notin usedProofs

C5_Body(a, op, m, x, proof, verdict, r) == r.err = "ok" => WithinLimits(a, m, x)

C6_Body(a, op, m, x, proof, verdict, r) ==
  verdict /\ ~MetadataMatches(proof, a, op, m, x) =>
    /\ r.err # "ok"
    /\ r.executed = executed
    /\ IsActive(a) /\ Unused(proof) /\ Fresh(proof) => r.err = "InvalidProof"

\* C6: a call whose proof the verifier accepts but whose attested operation,
\* amount, market or agent differs from the call executes nothing, and fails
\* with InvalidProof once the agent, replay and freshness checks have passed
C6_MetadataBinding == Idle => EveryCall(C6_Body)

\* a verified proof was rejected on its attested metadata
C6_Witness ==
  /\ lastCall.fn \in GatedFns
  /\ lastCall.at \in {"operationType", "amount", "market", "agent"}
  /\ lastCall.err = "InvalidProof"

C7_Body(a, op, m, x, proof, verdict, r) ==
  proof.policyHash # agents[a].policyHash =>
    /\ r.err # "ok"
    /\ r.executed = executed
    /\ IsActive(a) /\ Unused(proof) /\ Fresh(proof) => r.err = "InvalidProof"

\* C7: a call whose proof targets another policy hash than the one bound to
\* the caller now executes nothing, and fails with InvalidProof once the
\* agent, replay and freshness checks have passed
C7_PolicyBinding == Idle => EveryCall(C7_Body)

\* a verified, unused proof for a registered policy the caller is not bound
\* to was rejected
C7_Witness ==
  /\ lastCall.fn \in GatedFns
  /\ lastCall.at = "policyHash"
  /\ lastCall.err = "InvalidProof"
  /\ \A p \in PolicyCatalogue : policies[computePolicyHash(p)] = p

C8_Body(a, op, m, x, proof, verdict, r) ==
  /\ proof.timestamp = now - 301 =>
       /\ r.err # "ok"
       /\ IsActive(a) /\ Unused(proof) => r.err = "ProofExpired"
  /\ proof.timestamp = now - 299 =>
       /\ r.at # "timestamp"
       /\ ( /\ IsActive(a) /\ Unused(proof) /\ verdict
            /\ proof.policyHash = agents[a].policyHash
            /\ MetadataMatches(proof, a, op, m, x) /\ SignedBy(proof, a)
            /\ (runsLimits(op, BoundPolicy(a)) => WithinLimits(a, m, x))
            => r.err = "ok" )
  /\ r.err = "ok" => now - proof.timestamp <= 300

\* C8: with the 300 s window a proof stamped now - 301 is rejected
\* (ProofExpired once the agent and replay checks passed), one stamped
\* now - 299 passes the freshness check and succeeds when everything else
\* passes, and no executed operation carries a proof older than 300 s
C8_Freshness == Idle => EveryCall(C8_Body)

\* a call was rejected with ProofExpired at the timestamp check
C8_Witness ==
  /\ lastCall.fn \in GatedFns
  /\ lastCall.at = "timestamp"
  /\ lastCall.err = "ProofExpired"

C9_Body(a, op, m, x, proof, verdict, r) ==
  runsLimits(op, BoundPolicy(a)) =>
    /\ r.err = "ExceedsDailyLimit" <=>
         /\ IsActive(a) /\ Unused(proof)
         /\ m \in MarketSet(BoundPolicy(a))
         /\ x <= BoundPolicy(a).maxSingleTx
         /\ EffectiveSpent(a) + x > BoundPolicy(a).dailyLimit
    /\ ( /\ IsActive(a) /\ Unused(proof) /\ m \in MarketSet(BoundPolicy(a))
         /\ BoundPolicy(a).dailyLimit = 10000 /\ BoundPolicy(a).maxSingleTx = 5000
         /\ agents[a].dailySpent = 8000
         /\ now - agents[a].lastResetTimestamp < 86400
         => /\ x = 3000 => r.err = "ExceedsDailyLimit"
            /\ x = 2000 => r.err = "ok" /\ r.agents[a].dailySpent = 10000 )

\* C9: a limit-checked call that passed the earlier checks is rejected with
\* ExceedsDailyLimit exactly when effectiveSpent + amount > dailyLimit; with
\* dailyLimit 10000, maxSingleTx 5000 and dailySpent 8000 inside the window,
\* 3000 is rejected and 2000 is accepted and leaves dailySpent = 10000
C9_DailyLimit == Idle => EveryLimitCall(C9_Body)

\* with 8000 spent inside the window, a borrow of 3000 was rejected
C9_Witness ==
  /\ lastCall.fn = "borrowWithProof"
  /\ lastCall.amount = 3000
  /\ lastCall.err = "ExceedsDailyLimit"
  /\ agents[lastCall.sender].dailySpent = 8000
  /\ now - agents[lastCall.sender].lastResetTimestamp < 86400

LimitsDue(op, policy) ==
  \/ op = OPERATION_BORROW
  \/ op = OPERATION_SUPPLY /\ policy.requireProofForSupply
  \/ op = OPERATION_WITHDRAW /\ policy.requireProofForWithdraw

\* the call passed every check of the proof gate
PassedGate(r) == r.at \in {"ok", "allowedMarkets", "maxSingleTx", "dailyLimit"}

C11_Body(a, op, m, x, proof, verdict, r) ==
  /\ r.err = "ok" =>
       validateAgentAndProof(agents[a], usedProofs, proof, verdict, x, m, op, a) = "ok"
  /\ PassedGate(r) =>
       (r.err = "ok" <=> (LimitsDue(op, BoundPolicy(a)) => WithinLimits(a, m, x)))

\* C11: the proof gate runs for all four operations whatever the flags, and a
\* call that passed it is held to the market whitelist, single-tx cap and
\* daily cap always for Borrow, never for Repay, and for Supply and Withdraw
\* exactly when requireProofForSupply, respectively requireProofForWithdraw,
\* is true
C11_ConditionalLimits == Idle => EveryCall(C11_Body)

\* a policy has been registered under the hash: every policy registered here
\* differs from the zero struct an unwritten slot reads as
Registered(h) == policies[h] # ZeroPolicy

\* a step that executes the management call fn
AdminStep(fn) == Idle /\ lastCall'.fn = fn

\* C12: authorizeAgent fails with PolicyNotFound exactly when no policy was
\* registered under the hash, also when the registered policy has dailyLimit
\* and maxLTV both zero, and a failure leaves the storage unchanged
C12_PolicyNotFound ==
  [][ AdminStep("authorizeAgent") =>
        /\ lastCall'.err = "PolicyNotFound" <=> ~Registered(lastCall'.policyHash)
        /\ lastCall'.err = "ok" <=> Registered(lastCall'.policyHash)
        /\ lastCall'.err # "ok" => UNCHANGED storage ]_vars

\* the per-agent authorization states
NoAuthorization(config) == config.owner = ZeroAddr /\ ~config.isActive
AuthorizedInactive(config) == config.owner # ZeroAddr /\ ~config.isActive
AuthorizedActive(config) == config.isActive

\* C13: a successful authorizeAgent leaves the agent active with owner =
\* caller, the given policy hash, dailySpent = 0 and lastResetTimestamp = now,
\* whatever its record held; only revokeAgent moves an agent into
\* authorized-inactive, and no step returns an agent to no-authorization
C13_Lifecycle ==
  [][ /\ AdminStep("authorizeAgent") /\ lastCall'.err = "ok" =>
           agents'[lastCall'.agent] =
             [agent |-> lastCall'.agent, owner |-> lastCall'.sender,
              policyHash |-> lastCall'.policyHash, dailySpent |-> 0,
              lastResetTimestamp |-> now, isActive |-> TRUE]
      /\ \A a \in Agents :
           /\ ~AuthorizedInactive(agents[a]) /\ AuthorizedInactive(agents'[a]) =>
                /\ lastCall'.fn = "revokeAgent"
                /\ lastCall'.agent = a
                /\ lastCall'.err = "ok"
           /\ ~NoAuthorization(agents[a]) => ~NoAuthorization(agents'[a]) ]_vars

\* a second owner authorized, a day later, an agent whose record held the
\* first owner, a spend and the earlier reset time, and the record is fresh
C13_Witness ==
  /\ lastCall.fn = "authorizeAgent"
  /\ lastCall.err = "ok"
  /\ lastCall.sender = "o2"
  /\ ownerAgents["o1"][lastCall.agent]
  /\ usedProofs # {}
  /\ now > StartTime
  /\ agents[lastCall.agent] =
       [agent |-> lastCall.agent, owner |-> "o2", policyHash |-> lastCall.policyHash,
        dailySpent |-> 0, lastResetTimestamp |-> now, isActive |-> TRUE]

\* C14: revokeAgent by anyone but the recorded owner, also for an agent never
\* authorized, fails with AgentNotAuthorized and changes nothing; by the
\* recorded owner it clears isActive and leaves the agent's owner, policy
\* hash, dailySpent, lastResetTimestamp and the consumed proofs unchanged
C14_RevokeFrame ==
  [][ AdminStep("revokeAgent") =>
        LET a == lastCall'.agent
        IN  /\ lastCall'.sender # agents[a].owner =>
                 /\ lastCall'.err = "AgentNotAuthorized"
                 /\ UNCHANGED storage
            /\ lastCall'.sender = agents[a].owner =>
                 /\ lastCall'.err = "ok"
                 /\ agents' = [agents EXCEPT ![a].isActive = FALSE]
                 /\ UNCHANGED <<usedProofs, policies, executed>> ]_vars

\* the owner revoked an agent that had spent and consumed a proof: the spend,
\* the reset time, the binding and the ledger are still there
C14_Witness ==
  /\ lastCall.fn = "revokeAgent"
  /\ lastCall.err = "ok"
  /\ ~agents[lastCall.agent].isActive
  /\ agents[lastCall.agent].owner = lastCall.sender
  /\ agents[lastCall.agent].dailySpent > 0
  /\ agents[lastCall.agent].policyHash # ZeroHash
  /\ usedProofs # {}

\* C15: isAgentAuthorized(agent, owner) is true exactly when owner is the
\* owner recorded in the agent's AgentConfig and that config is active; after
\* a second owner authorized the agent it is false for the first owner
C15_IsAgentAuthorized ==
  \A a \in Agents, o \in Owners :
    isAgentAuthorized(a, o) <=> (agents[a].owner = o /\ agents[a].isActive)

C17_LedgerOnlyGrows ==
  [][ /\ usedProofs \subseteq usedProofs'
      /\ GatedStep /\ lastCall'.proofHash \in usedProofs =>
           /\ lastCall'.err # "ok"
           /\ UNCHANGED storage ]_vars

\* the only agent ever authorized, which therefore consumed the proofs of the
\* ledger itself, was authorized again and the ledger kept them
C17_Witness ==
  /\ lastCall.fn = "authorizeAgent"
  /\ lastCall.err = "ok"
  /\ usedProofs # {}
  /\ \A h \in usedProofs : executed[h] = 1
  /\ agents[lastCall.agent].dailySpent = 0
  /\ \A a \in Agents \ {lastCall.agent} : agents[a].owner = ZeroAddr

OutcomeFrom(st, a, op, x, b) ==
  operationResultFrom(st, a, op, "m1", x, HonestProof(a, op, "m1", x, b, 299), TRUE,
                      Completes)

\* the storage an outcome leaves behind
After(r) == [agents |-> r.agents, usedProofs |-> r.usedProofs, executed |-> r.executed]

\* what the request's own agent sees of its outcome
Seen(st, c, op, x, b) ==
  LET r == OutcomeFrom(st, c, op, x, b) IN <<r.err, r.agents[c]>>

\* the request does not execute
Refused(st, c, op, x, b) ==
  LET r == OutcomeFrom(st, c, op, x, b) IN r.err # "ok" /\ r.executed = st.executed

C19_Body(a, op, x, b) ==
  LET first == OutcomeFrom(CurrentStorage, a, op, x, b)
      then == After(first)
  IN  first.err = "ok" =>
        /\ op = OPERATION_BORROW =>
             \A y \in Amounts, d \in LimitProofBytes \ {b} :
               /\ EffectiveSpent(a) + x + y > BoundPolicy(a).dailyLimit
               /\ OutcomeFrom(CurrentStorage, a, OPERATION_BORROW, y, d).err = "ok"
               => OutcomeFrom(then, a, OPERATION_BORROW, y, d).err = "ExceedsDailyLimit"
        /\ \A c \in Agents, op2 \in Ops, y \in Amounts : Refused(then, c, op2, y, b)
        /\ \A c \in Agents \ {a}, op2 \in Ops, y \in Amounts, d \in LimitProofBytes \ {b} :
             Seen(then, c, op2, y, d) = Seen(CurrentStorage, c, op2, y, d)

RECURSIVE SumFrom(_, _, _)
\* the amounts of the entries i.. of the log executed before time end
SumFrom(log, i, end) ==
  IF i > Len(log) THEN 0
  ELSE (IF log[i].at < end THEN log[i].amount ELSE 0) + SumFrom(log, i + 1, end)

\* C20: for an agent bound to one policy since its authorization, the amounts
\* of the borrows executed within any 24 hours, counted from any of them, sum
\* to at most the policy's dailyLimit
C20_MaxSpendPer24h ==
  \A i \in 1..Len(borrowed) :
    SumFrom(borrowed, i, borrowed[i].at + DAY_IN_SECONDS) <= BoundPolicy("a1").dailyLimit

\* the two policies have the same field values, allowedMarkets being a set
SameFields(p, q) ==
  /\ p.dailyLimit = q.dailyLimit
  /\ p.maxSingleTx = q.maxSingleTx
  /\ p.maxLTV = q.maxLTV
  /\ p.minHealthFactor = q.minHealthFactor
  /\ MarketSet(p) = MarketSet(q)
  /\ p.requireProofForSupply = q.requireProofForSupply
  /\ p.requireProofForBorrow = q.requireProofForBorrow
  /\ p.requireProofForWithdraw = q.requireProofForWithdraw

EveryDefectiveCall(P(_, _, _, _, _, _, _)) ==
  \A op \in Ops, m \in Markets, x \in Amounts, b \in ProofBytes, D \in DefectSets :
    P("a1", op, m, x, DefectiveProof("a1", op, m, x, b, D), DefectiveVerdict(D),
      operationResult("a1", op, m, x, DefectiveProof("a1", op, m, x, b, D),
                      DefectiveVerdict(D), Completes))

\* the steps of the proof gate and of the limit enforcer, in order
GateOrder ==
  <<"isActive", "usedProofs", "timestamp", "verifier", "policyHash", "metadata",
    "signature">>
LimitOrder == <<"allowedMarkets", "maxSingleTx", "dailyLimit">>

\* the call does not satisfy what the step asks for
Fails(step, a, op, m, x, proof, verdict) ==
  CASE step = "isActive" -> ~IsActive(a)
    [] step = "usedProofs" -> ~Unused(proof)
    [] step = "timestamp" -> ~Fresh(proof)
    [] step = "verifier" -> ~verdict
    [] step = "policyHash" -> proof.policyHash # agents[a].policyHash
    [] step = "metadata" -> ~MetadataMatches(proof, a, op, m, x)
    [] step = "signature" -> ~SignedBy(proof, a)
    [] step = "allowedMarkets" -> m \notin MarketSet(BoundPolicy(a))
    [] step = "maxSingleTx" -> x > BoundPolicy(a).maxSingleTx
    [] step = "dailyLimit" -> EffectiveSpent(a) + x > BoundPolicy(a).dailyLimit

\* the error each step rejects with
StepError(step) ==
  CASE step = "isActive" -> "AgentNotAuthorized"
    [] step = "timestamp" -> "ProofExpired"
    [] step = "signature" -> "InvalidSignature"
    [] step = "allowedMarkets" -> "MarketNotAllowed"
    [] step = "maxSingleTx" -> "ExceedsSingleTxLimit"
    [] step = "dailyLimit" -> "ExceedsDailyLimit"
    [] step \in {"usedProofs", "verifier", "policyHash", "metadata"} -> "InvalidProof"

\* the step a rejection was raised at
StepOf(at) ==
  IF at \in {"operationType", "amount", "market", "agent"} THEN "metadata" ELSE at

\* the earliest step of the order the call fails, or "ok"
Earliest(order, a, op, m, x, proof, verdict) ==
  LET failing == {i \in 1..Len(order) : Fails(order[i], a, op, m, x, proof, verdict)}
  IN  IF failing = {} THEN "ok"
      ELSE order[CHOOSE i \in failing : \A j \in failing : i <= j]

C22_Body(a, op, m, x, proof, verdict, r) ==
  LET gate == Earliest(GateOrder, a, op, m, x, proof, verdict)
      limit == Earliest(LimitOrder, a, op, m, x, proof, verdict)
  IN  /\ gate # "ok" => r.err = StepError(gate) /\ StepOf(r.at) = gate
      /\ gate = "ok" /\ r.err # "ok" =>
           limit # "ok" /\ r.err = StepError(limit) /\ r.at = limit
      /\ gate = "ok" /\ limit # "ok" /\ op = OPERATION_BORROW =>
           r.err = StepError(limit)

\* C22: of the checks a call makes, the earliest one that fails decides the
\* error: a call failing any of the seven steps of the proof gate is rejected
\* at the earliest of them with that step's error, a limit error is returned
\* only by a call that passes the whole gate and is the error of the earliest
\* failing check among market, single-tx and daily limit, and a borrow that
\* passes the gate and fails a limit check gets that error
C22_ErrorPrecedence == Idle => EveryDefectiveCall(C22_Body)

\* a revoked agent replayed the proof of an executed call and was rejected
\* with AgentNotAuthorized, the error of the earlier of the two failing steps
C22_Witness ==
  /\ lastCall.fn \in GatedFns
  /\ lastCall.err = "AgentNotAuthorized"
  /\ lastCall.proofHash \in usedProofs
  /\ executed[lastCall.proofHash] = 1
  /\ ~agents[lastCall.sender].isActive

\* C23: every successful supply, borrow, withdraw and repay leaves its proof
\* consumed, Morpho called once more under it, and the caller's counters
\* updated by its amount: dailySpent = amount and lastResetTimestamp = now if
\* the window had elapsed, dailySpent increased by amount otherwise
C23_SpendAccounting ==
  [][ GatedStep /\ lastCall'.err = "ok" =>
        \A a \in Agents : lastCall'.sender = a =>
          /\ lastCall'.proofHash \in usedProofs'
          /\ executed'[lastCall'.proofHash] = executed[lastCall'.proofHash] + 1
          /\ IF now - agents[a].lastResetTimestamp >= DAY_IN_SECONDS
             THEN /\ agents'[a].dailySpent = lastCall'.amount
                  /\ agents'[a].lastResetTimestamp = now
             ELSE /\ agents'[a].dailySpent = agents[a].dailySpent + lastCall'.amount
                  /\ agents'[a].lastResetTimestamp = agents[a].lastResetTimestamp
    ]_vars

\* P holds of every gated call the audit exploration can make in this state:
\* its operation, proof, effects in order, and outcome
EveryAuditedCall(P(_, _, _, _)) ==
  \A op \in Ops, b \in ProofBytes, D \in EventDefects, e \in Externals :
    P(op, DefectiveProof("a1", op, "m1", 5000, b, D),
      gatedEffects(CurrentStorage, "a1", op, "m1", 5000,
                   DefectiveProof("a1", op, "m1", 5000, b, D), DefectiveVerdict(D), e),
      operationResult("a1", op, "m1", 5000, DefectiveProof("a1", op, "m1", 5000, b, D),
                      DefectiveVerdict(D), e))

\* the checks of the seven steps of the proof gate
GateChecks ==
  {"isActive", "usedProofs", "timestamp", "verifier", "policyHash", "operationType",
   "amount", "market", "agent", "signature"}

\* the place of an effect in the order: gate checks, consume, ProofVerified,
\* limit checks, counter update, protocol call, Executed event, revert
Place(effect) ==
  CASE effect.kind = "check" /\ effect.what \in GateChecks -> 1
    [] effect.kind = "call" /\ effect.what = "verifierCall" -> 1
    [] effect.kind = "write" /\ effect.what = "usedProofs" -> 2
    [] effect.kind = "emit" /\ effect.what = "ProofVerified" -> 3
    [] effect.kind = "check" /\ effect.what \notin GateChecks -> 4
    [] effect.kind = "write" /\ effect.what = "dailySpent" -> 5
    [] effect.kind = "call" /\ effect.what = "morphoCall" -> 6
    [] effect.kind = "emit" /\ effect.what # "ProofVerified" -> 7
    [] effect.kind = "revert" -> 8

C24_Body(op, proof, fx, r) ==
  LET at(k) == {i \in 1..Len(fx) : Place(fx[i]) = k}
      reverted == fx[Len(fx)].kind = "revert"
  IN  /\ \A i, j \in 1..Len(fx) :
           i < j => /\ Place(fx[i]) <= Place(fx[j])
                    /\ Place(fx[i]) = Place(fx[j]) => Place(fx[i]) \in {1, 4}
      /\ \A i \in at(2) :
           /\ \A c \in GateChecks : \E j \in 1..(i - 1) : fx[j] = Check(c)
           /\ fx[i + 1] = Emit(ProofVerified("a1", proof.policyHash, keccak256(proof.proof)))
      /\ \A j \in at(6) : \E i \in at(2) : i < j
      /\ \A j \in at(7) : \E i \in at(6) : i + 1 = j
      /\ r.err = "ok" <=> ~reverted
      /\ r.err = "ok" <=> fx[Len(fx)].what = ExecutedName(op)
      /\ r.executed # executed <=> at(6) # {} /\ ~reverted
      /\ r.usedProofs # usedProofs <=> at(2) # {} /\ ~reverted

\* C24: the effects of every gated call come in the order gate checks,
\* consume the proof, ProofVerified, limit checks, counter update, protocol
\* call, Executed event: the proof is marked used only after all checks of the
\* gate, the signature check last, have run, ProofVerified follows at once,
\* and the protocol call is made only with the proof marked used; a revert
\* ends the call and what the call leaves behind agrees with its effects
C24_ConsumeOrder == Idle => EveryAuditedCall(C24_Body)

\* a borrow went through every step: its proof is consumed, the counters are
\* updated, Morpho was called once and the log ends with its two events
C24_Witness ==
  /\ lastCall.fn = "borrowWithProof"
  /\ lastCall.err = "ok"
  /\ lastCall.proofHash \in usedProofs
  /\ executed[lastCall.proofHash] = 1
  /\ agents["a1"].dailySpent = 5000
  /\ Len(events) = 2
  /\ events[1].name = "ProofVerified"
  /\ events[2].name = "BorrowExecuted"

\* the event a gated function emits when it has executed
EventOf(fn) ==
  CASE fn = "supplyWithProof" -> "SupplyExecuted"
    [] fn = "borrowWithProof" -> "BorrowExecuted"
    [] fn = "withdrawWithProof" -> "WithdrawExecuted"
    [] fn = "repayWithProof" -> "RepayExecuted"

ExecutedEvents == {"SupplyExecuted", "BorrowExecuted", "WithdrawExecuted", "RepayExecuted"}

\* C25: a successful gated call adds to the log exactly one ProofVerified
\* event and then exactly one Executed event of its own type carrying the
\* caller, the market, the amount and the same proof hash; a rejected call and
\* every other step leave the log as it was; no proof hash ever appears in
\* two Executed events
C25_AuditEvents ==
  [][ /\ GatedStep /\ lastCall'.err = "ok" =>
           \A a \in Agents : lastCall'.sender = a =>
             events' = events \o
               <<[name |-> "ProofVerified", sender |-> a,
                  policyHash |-> agents[a].policyHash, market |-> ZeroAddr,
                  amount |-> 0, proofHash |-> lastCall'.proofHash],
                 [name |-> EventOf(lastCall'.fn), sender |-> a, policyHash |-> ZeroHash,
                  market |-> lastCall'.market, amount |-> lastCall'.amount,
                  proofHash |-> lastCall'.proofHash]>>
      /\ lastCall'.err # "ok" => events' = events
      /\ ~GatedStep => events' = events
      /\ \A i, j \in 1..Len(events') :
           /\ i < j
           /\ events'[i].name \in ExecutedEvents
           /\ events'[j].name \in ExecutedEvents
           => events'[i].proofHash # events'[j].proofHash ]_vars

\* two operations of different types were executed under different proofs,
\* each logged with its ProofVerified, and the call just rejected left no event
C25_Witness ==
  /\ lastCall.fn \in GatedFns
  /\ lastCall.err # "ok"
  /\ Len(events) = 4
  /\ events[1].name = "ProofVerified" /\ events[3].name = "ProofVerified"
  /\ events[2].name \in ExecutedEvents /\ events[4].name \in ExecutedEvents
  /\ events[2].name # events[4].name
  /\ events[1].proofHash = events[2].proofHash
  /\ events[3].proofHash = events[4].proofHash

\* the spend counters of an agent
Counters(config) == <<config.dailySpent, config.lastResetTimestamp>>

\* C26: the dailySpent and lastResetTimestamp of an agent change only in a
\* successful gated call made by that agent or in a successful authorizeAgent
\* for that agent: registerPolicy, revokeAgent, the read-only functions, every
\* rejected call, every call of or for another agent and the passing of time
\* leave them as they are
C26_CountersFrame ==
  [][ \A a \in Agents :
        Counters(agents'[a]) # Counters(agents[a]) =>
          /\ lastCall'.err = "ok"
          /\ \/ lastCall'.fn \in GatedFns /\ lastCall'.sender = a
             \/ lastCall'.fn = "authorizeAgent" /\ lastCall'.agent = a ]_vars

\* an agent with spend on its counters has just been revoked by its owner
\* and keeps them, while the other agent has counters of its own from a later
\* window
C26_Witness ==
  /\ lastCall.fn = "revokeAgent"
  /\ lastCall.err = "ok"
  /\ lastCall.agent = "a1"
  /\ ~agents["a1"].isActive
  /\ agents["a1"].dailySpent = 5000
  /\ agents["a2"].dailySpent = 5000
  /\ agents["a2"].lastResetTimestamp > agents["a1"].lastResetTimestamp

ViewAmounts == {0} \cup LimitAmounts

\* _validateLimits, run for the agent on amount x in market m, does not stop
\* at the daily-limit check
PassesDailyLimit(a, m, x) ==
  validateLimits(agents[a], BoundPolicy(a), x, m) # "dailyLimit"

\* C28: getDailySpent is 0 once the 24 h window since lastResetTimestamp has
\* elapsed and the stored dailySpent otherwise, getRemainingDailyLimit is
\* max(0, dailyLimit - that value) and never negative, and a limit-checked
\* operation that gets as far as the daily-limit check passes it if and only
\* if its amount is at most getRemainingDailyLimit at that time
C28_ViewsAgree ==
  Idle =>
    \A a \in Agents :
      LET spent == IF now - agents[a].lastResetTimestamp >= 86400 THEN 0
                   ELSE agents[a].dailySpent
          room == BoundPolicy(a).dailyLimit - spent
      IN  /\ getDailySpent(a) = spent
          /\ getRemainingDailyLimit(a) = IF room > 0 THEN room ELSE 0
          /\ getRemainingDailyLimit(a) >= 0
          /\ \A x \in ViewAmounts, m \in Markets :
               /\ IsActive(a)
               /\ verifyMarketAllowed(m, BoundPolicy(a).allowedMarkets)
               /\ verifySingleTxLimit(x, BoundPolicy(a).maxSingleTx)
               => (PassesDailyLimit(a, m, x) <=> x <= getRemainingDailyLimit(a))

\* the entries of the history that record an executed operation
Successes == {i \in 1..Len(state.history) : state.history[i].success}

DecidedToExecute ==
  /\ cycle.pc = "market"
  /\ cycle'.i # cycle.i
  /\ cycle'.decision.shouldExecute
  /\ "operation" \in DOMAIN cycle'.decision
  /\ cycle'.decision.operation \in Ops
  /\ cycle'.decision.amount # 0

\* C30: every decision to execute an operation of any of the four types
\* with a nonzero amount is recorded: executeWithProof appends exactly one
\* history entry for it, with success = true and dailyOperationCount
\* incremented when the proof is generated and submitted, and with
\* success = false and dailyOperationCount and lastOperationTimestamp
\* unchanged when that fails
C30_EveryDecisionRecorded ==
  [][ DecidedToExecute =>
        LET entry == state'.history[Len(state'.history)]
        IN  /\ Len(state'.history) = Len(state.history) + 1
            /\ entry.operation = cycle'.decision.operation
            /\ entry.amount = cycle'.decision.amount
            /\ entry.market = agentConfig.targetMarkets[cycle.i]
            /\ entry.success = cycle'.generated
            /\ cycle'.generated =>
                 state'.dailyOperationCount = state.dailyOperationCount + 1
            /\ ~cycle'.generated =>
                 /\ state'.dailyOperationCount = state.dailyOperationCount
                 /\ state'.lastOperationTimestamp = state.lastOperationTimestamp ]_vars

====
